---------------------------- MODULE Spec2Model ----------------------------
(***************************************************************************)
(* A model of refrepo-ace: the git wrapper (refrepo_git.py) and the        *)
(* reference repository maintenance tool (refrepo_ace.py).                 *)
(*                                                                         *)
(* Strings are modelled as sequences of one-character strings, so that     *)
(* Python's indexing (s[0]), slicing (s[-4:]) and rfind are computed as    *)
(* the code computes them.  Argument lists are sequences of such strings.  *)
(***************************************************************************)
EXTENDS Integers, Sequences, FiniteSets, TLC

VARIABLES
    \* --- pure functions of refrepo_git.py applied to an argument list
    kind,          \* which family of argument lists `args` was drawn from
    args,          \* the argument list the function is applied to
    repo_is_dir,   \* repo_path.is_dir() as seen by inject_reference_repo_arg
    op,            \* the function that has been applied ("none" before)
    out,           \* its outcome: [exc |-> "none", val |-> v] or an exception
    \* --- the Config Store written by concurrent wrapper processes
    posix,         \* the platform: os.rename replaces an existing target
    conf_is_dir,   \* target_dir.is_dir() in write_remote_confs
    remotes,       \* per process: the list of remotes it has discovered
    nth,           \* per process: how many of them it has handled
    wpc,           \* per process: its position in write_remote_confs
    entry,         \* the directory: file stem |-> the inode "<stem>.remote" names
    tmp,           \* the directory: the inodes still under a temporary name
    disk,          \* inode |-> its content on disk (Absent: not created)
    ret,           \* per process: what its atomic_write calls returned
    reader,        \* a maintenance process in get_remotes, reading the store
    \* --- one run of the wrapper, refrepo_git.py's main()
    w_pc,          \* where main() is
    root_set,      \* REFREPO_ACE_ROOT_DIR is set (and not empty)
    argv,          \* sys.argv[1:]
    wargs,         \* args: what inject_reference_repo_arg returned
    alt,           \* the local .git/objects/info/alternates file
    git_ran,       \* the wrapped git process has been run
    git_args,      \* the arguments it was run with
    git_code,      \* its return code
    exit_code,     \* the wrapper's own exit code (-1 while it runs)
    raised,        \* [in |-> the step an exception came out of, exc |-> it]
    recon,         \* how far remote reconciliation got
    steps,         \* the steps main() has taken, in order
    w_store,       \* the Config Store: the content of each "<stem>.remote"
    \* --- one maintenance run, refrepo_ace.py's update()
    m_pc,          \* where update() is
    repo_path,     \* what is at root_dir / repo: "absent", "file", "dir", "repo"
    repo_remotes,  \* the remote names of the reference repository
    conf_names,    \* the stems of the *.remote files of the conf directory
    existing,      \* existing_remotes_set
    requested,     \* requested_remotes_set, as get_remotes listed it
    pending,       \* the requested remotes the for loop has not reached yet
    run,           \* the number of this maintenance run (1 is the first)
    ops,           \* the "remote add" and "remote remove" calls of this run
    prev,          \* of the last run that completed: the names it listed,
                   \* and the names in the conf directory when it ended
    \* --- make_remote_name applied to a URL
    remote_url,    \* the URL
    n_pc,          \* "start" before the call, "called" after it
    named,         \* the call's outcome
    \* --- the alternates file of one local repository over fetch invocations
    alt_prior,     \* the file before the first invocation
    alt_now,       \* the file now
    fetches        \* the fetch invocations made so far

argVars == <<kind, args, repo_is_dir, op, out>>
storeVars ==
    <<posix, conf_is_dir, remotes, nth, wpc, entry, tmp, disk, ret, reader>>
wrapVars ==
    <<w_pc, root_set, argv, wargs, alt, git_ran, git_args, git_code,
      exit_code, raised, recon, steps, w_store>>
maintVars ==
    <<m_pc, repo_path, repo_remotes, conf_names, existing, requested, pending,
      run, ops, prev>>
nameVars == <<remote_url, n_pc, named>>
altVars == <<alt_prior, alt_now, fetches>>
vars == <<argVars, storeVars, wrapVars, maintVars, nameVars, altVars>>

\* What each part of the model leaves alone.
argFrame == <<storeVars, wrapVars, maintVars, nameVars, altVars>>
storeFrame == <<argVars, wrapVars, maintVars, nameVars, altVars>>
wrapFrame == <<argVars, storeVars, maintVars, nameVars, altVars>>
maintFrame == <<argVars, storeVars, wrapVars, nameVars, altVars>>
nameFrame == <<argVars, storeVars, wrapVars, maintVars, altVars>>
altFrame == <<argVars, storeVars, wrapVars, maintVars, nameVars>>

---------------------------------------------------------------------------
(* Bounds of the model.                                                    *)

\* Longest argument list given to the argument-list functions.
MaxArgs == 4

\* Longest argument list the wrapper is run with.
MaxArgv == 3

\* The atomic_write calls made in one run of the Config Store model, by
\* that many wrapper processes at most.
MaxWrites == 2

\* Longest URL given to make_remote_name, in pieces.
MaxUrl == 5

\* The maintenance runs made one after the other.
MaxRuns == 2

\* Longest prior content of an alternates file, in pieces.
MaxAlt == 3

\* The fetch invocations made one after the other on one repository.
MaxFetches == 2

\* The remote records one reconciliation finds, at most.
MaxFound == 2

---------------------------------------------------------------------------
(* Tokens.                                                                 *)

EmptyTok == <<>>
TokDashC == <<"-", "C">>
TokDashc == <<"-", "c">>
TokDashDash == <<"-", "-">>
TokDashX == <<"-", "x">>
TokClone == <<"c", "l", "o", "n", "e">>
TokSubmodule == <<"s", "u", "b", "m", "o", "d", "u", "l", "e">>
TokAdd == <<"a", "d", "d">>
TokUpdate == <<"u", "p", "d", "a", "t", "e">>
TokFetch == <<"f", "e", "t", "c", "h">>
TokPull == <<"p", "u", "l", "l">>
TokCheckout == <<"c", "h", "e", "c", "k", "o", "u", "t">>
TokReference == <<"-", "-", "r", "e", "f", "e", "r", "e", "n", "c", "e">>
TokDir == <<"d">>
TokDashB == <<"-", "b">>
TokDashQ == <<"-", "q">>
UrlRepoGit == <<"u", "/", "r", ".", "g", "i", "t">>
UrlRepo == <<"u", "/", "r">>
UrlSlash == <<"u", "/">>
UrlDotGit == <<"u", "/", ".", "g", "i", "t">>
DotGit == <<".", "g", "i", "t">>

\* str(root_dir / repo): the reference repository's path.
RefRepoPath == <<"/", "R">>

\* The options of "git clone" that take a value in the next token.
CloneTwoTokenOptions ==
    {<<"-", "o">>,
     <<"-", "-", "o", "r", "i", "g", "i", "n">>,
     <<"-", "b">>,
     <<"-", "-", "b", "r", "a", "n", "c", "h">>,
     <<"-", "u">>,
     <<"-", "-", "u", "p", "l", "o", "a", "d", "-", "p", "a", "c", "k">>,
     <<"-", "c">>,
     <<"-", "-", "c", "o", "n", "f", "i", "g">>,
     <<"-", "-", "r", "e", "f", "e", "r", "e", "n", "c", "e">>,
     <<"-", "-", "r", "e", "f", "e", "r", "e", "n", "c", "e", "-", "i", "f", "-", "a", "b", "l", "e">>,
     <<"-", "-", "s", "e", "p", "a", "r", "a", "t", "e", "-", "g", "i", "t", "-", "d", "i", "r">>,
     <<"-", "-", "d", "e", "p", "t", "h">>,
     <<"-", "j">>,
     <<"-", "-", "j", "o", "b", "s">>}

\* Tokens of the argument lists given to the pre-command functions.
GitTokens ==
    {TokDashC, TokDashc, TokDashDash, TokDashX, TokClone, TokSubmodule,
     TokAdd, TokUpdate, TokDir, EmptyTok}

\* Tokens of the argument lists that follow "clone".
CloneTokens ==
    {TokDashB, TokDashQ, TokDashDash, UrlRepoGit, UrlRepo, UrlSlash,
     UrlDotGit, TokDir, EmptyTok}

SeqsUpTo(S, n) == UNION {[1..k -> S] : k \in 0..n}

---------------------------------------------------------------------------
(* Python values and list operations.                                      *)

\* A call's outcome: a returned value, or a raised exception.
Ok(v) == [exc |-> "none", val |-> v]
Raise(e) == [exc |-> e, val |-> <<>>]

\* s[i:] for a 0-based i >= 0 (the empty list when i >= len(s)).
SliceFrom(s, i) == SubSeq(s, i + 1, Len(s))

\* s[:i] for a 0-based i >= 0.
SliceTo(s, i) == SubSeq(s, 1, IF i < Len(s) THEN i ELSE Len(s))

\* s[-n:]: the last n elements (all of s when it is shorter).
LastN(s, n) == IF Len(s) <= n THEN s ELSE SubSeq(s, Len(s) - n + 1, Len(s))

\* s.rfind(c): the 0-based index of the last c in s, -1 when there is none.
RFind(s, c) ==
    LET hits == {i \in 1..Len(s) : s[i] = c}
    IN  IF hits = {} THEN -1
        ELSE (CHOOSE i \in hits : \A j \in hits : j <= i) - 1

\* list.insert(pos, x) twice: x at pos, y at pos + 1 (0 <= pos <= len).
Insert2(s, pos, x, y) == SliceTo(s, pos) \o <<x, y>> \o SliceFrom(s, pos)

---------------------------------------------------------------------------
(* refrepo_git.py: the argument-list functions.                            *)

\* A slip in the loop: only -C is taken to consume a value, -c is not.
RECURSIVE drop_pre_command_only_C(_)
drop_pre_command_only_C(a) ==
    IF a = <<>> THEN Ok(a)
    ELSE IF Head(a) = <<>> THEN Raise("IndexError")
    ELSE IF Head(a)[1] # "-" THEN Ok(a)
    ELSE IF Head(a) = TokDashC
         THEN drop_pre_command_only_C(SliceFrom(a, 2))
         ELSE drop_pre_command_only_C(SliceFrom(a, 1))

RECURSIVE drop_pre_command_git_args(_)
drop_pre_command_git_args(a) ==
    IF a = <<>> THEN Ok(a)
    ELSE IF Head(a) = <<>> THEN Raise("IndexError")      \* args[0][0] of ""
    ELSE IF Head(a)[1] # "-" THEN Ok(a)
    ELSE IF Head(a) = TokDashC \/ Head(a) = TokDashc
         THEN drop_pre_command_git_args(SliceFrom(a, 2))
         ELSE drop_pre_command_git_args(SliceFrom(a, 1))

\* insert_pos as lines 267-273 decide it from the stripped list.
insert_pos(a) ==
    IF Len(a) >= 1 /\ a[1] = TokClone THEN 1
    ELSE IF Len(a) >= 2 /\ a[1] = TokSubmodule /\ a[2] = TokAdd THEN 2
    ELSE IF Len(a) >= 2 /\ a[1] = TokSubmodule /\ a[2] = TokUpdate THEN 2
    ELSE -1

\* A slip in the offset: the insertion index is not moved by the number of
\* dropped pre-command tokens.
inject_reference_no_offset(a, is_dir) ==
    IF ~is_dir THEN Ok(a)
    ELSE LET d == drop_pre_command_git_args(a)
         IN  IF d.exc # "none" THEN d
             ELSE LET pos == insert_pos(d.val)
                  IN  IF pos > 0
                      THEN Ok(Insert2(a, pos, TokReference, RefRepoPath))
                      ELSE Ok(a)

inject_reference_repo_arg(a, is_dir) ==
    IF ~is_dir THEN Ok(a)
    ELSE LET d == drop_pre_command_git_args(a)
         IN  IF d.exc # "none" THEN d
             ELSE LET dropped_args == Len(a) - Len(d.val)
                      pos == insert_pos(d.val)
                  IN  IF pos > 0
                      THEN Ok(Insert2(a, pos + dropped_args,
                                      TokReference, RefRepoPath))
                      ELSE Ok(a)

\* The option-dropping loop of get_clone_target_path (lines 86-110).
RECURSIVE drop_clone_options(_)
drop_clone_options(a) ==
    IF a = <<>> THEN Ok(a)
    ELSE IF Head(a) = <<>> THEN Raise("IndexError")      \* args[0][0] of ""
    ELSE IF Head(a)[1] # "-" THEN Ok(a)
    ELSE IF Head(a) = TokDashDash THEN Ok(SliceFrom(a, 1))
    ELSE IF Head(a) \in CloneTwoTokenOptions
         THEN drop_clone_options(SliceFrom(a, 2))
         ELSE drop_clone_options(SliceFrom(a, 1))

\* The directory name derived from <repository> (lines 118-126): a returned
\* name, or <<>> when the code falls through to the raise.
derive_dir_name(url) ==
    LET idx == RFind(url, "/")
    IN  IF idx >= 0
        THEN LET dir_name == SliceFrom(url, idx + 1)
                 stripped == IF LastN(dir_name, 4) = DotGit
                             THEN SliceTo(dir_name, Len(dir_name) - 4)
                             ELSE dir_name
             IN  stripped
        ELSE <<>>

get_clone_target_path(a) ==
    LET d == drop_clone_options(a)
    IN  IF d.exc # "none" THEN d
        ELSE IF Len(d.val) >= 2 THEN Ok(d.val[2])
        ELSE IF Len(d.val) >= 1 /\ Len(derive_dir_name(d.val[1])) > 0
             THEN Ok(derive_dir_name(d.val[1]))
             ELSE Raise("Exception")

\* The for loop of lines 139-142, from sys.argv index k (k = 1 is argv[1]).
RECURSIVE first_dash_C(_, _)
first_dash_C(a, k) ==
    IF k > Len(a) - 1 THEN <<>>
    ELSE IF a[k] = TokDashC THEN <<a[k + 1]>>
    ELSE first_dash_C(a, k + 1)

\* os.getcwd()
Cwd == <<".">>

\* get_client_repo_root, on a == sys.argv[1:].
get_client_repo_root(a) ==
    IF Len(a) >= 1 /\ a[1] = TokClone
    THEN get_clone_target_path(SliceFrom(a, 1))
    ELSE IF first_dash_C(a, 1) # <<>> THEN Ok(first_dash_C(a, 1)[1])
    ELSE Ok(Cwd)

---------------------------------------------------------------------------
(* refrepo_git.py: make_remote_name.  The regular expression of lines      *)
(* 151-161 is matched as Python's backtracking matcher matches it: the     *)
(* alternatives of group 1 in order, a lazy quantifier's shortest match    *)
(* first.  No URL of the model holds a newline, the one character that     *)
(* "." does not match and before which "$" also matches.                   *)

\* str.lower() on the letters of the model's URLs.
ToLower == ("R" :> "r")
lower(str) ==
    [i \in 1..Len(str) |->
        IF str[i] \in DOMAIN ToLower THEN ToLower[str[i]] ELSE str[i]]

\* str.replace("/", "_")
replace_slash(str) ==
    [i \in 1..Len(str) |-> IF str[i] = "/" THEN "_" ELSE str[i]]

\* [A-Za-z] and [A-Za-z0-9+.-] on the characters of the model's URLs.
IsAlpha(c) == c \in {"a", "b", "c", "d", "g", "h", "i", "s", "t", "R"}
IsSchemeChar(c) == IsAlpha(c) \/ c \in {"+", ".", "-"}

\* The least element of a non-empty set of integers.
Least(S) == CHOOSE e \in S : \A f \in S : e <= f

\* ^[A-Za-z][A-Za-z0-9+.-]*://.+?/ : the 1-based indices at which the
\* match of the first alternative can end.  ":" is no scheme character, so
\* the scheme ends at the first ":" of the URL; ".+?" takes at least one
\* character, whatever it is, before the closing "/".
proper_url_ends(u) ==
    LET colons == {i \in 1..Len(u) : u[i] = ":"}
        c == IF colons = {} THEN 0 ELSE Least(colons)
    IN  IF /\ c >= 2 /\ IsAlpha(u[1])
           /\ \A i \in 2..(c - 1) : IsSchemeChar(u[i])
           /\ c + 2 <= Len(u) /\ u[c + 1] = "/" /\ u[c + 2] = "/"
        THEN {e \in (c + 4)..Len(u) : u[e] = "/"}
        ELSE {}

\* ^[^/]+?: : the indices at which the match of the second alternative
\* can end.
scp_ends(u) ==
    {e \in 2..Len(u) : u[e] = ":" /\ \A i \in 1..(e - 1) : u[i] # "/"}

\* What "(\.git)?/?$" can match.
TailSuffixes == {<<>>, <<"/">>, DotGit, DotGit \o <<"/">>}

\* (.+?)(\.git)?/?$ on a non-empty rest: group 2 is the shortest
\* non-empty prefix that leaves one of the suffixes.
group2(rest) ==
    SliceTo(rest,
            Least({k \in 1..Len(rest) : SliceFrom(rest, k) \in TailSuffixes}))

\* Where group 1 ends (0: the empty third alternative).  An alternative is
\* given up when nothing is left for (.+?) after it.
group1_end(u) ==
    LET proper == {e \in proper_url_ends(u) : e < Len(u)}
        scp == {e \in scp_ends(u) : e < Len(u)}
    IN  IF proper # {} THEN Least(proper)
        ELSE IF scp # {} THEN Least(scp)
        ELSE 0

\* ord() of the characters of the model's URLs.
Ord ==
    ("+" :> 43) @@ ("-" :> 45) @@ ("." :> 46) @@ ("/" :> 47) @@ (":" :> 58)
    @@ ("R" :> 82) @@ ("a" :> 97) @@ ("b" :> 98) @@ ("c" :> 99)
    @@ ("d" :> 100) @@ ("g" :> 103) @@ ("h" :> 104) @@ ("i" :> 105)
    @@ ("s" :> 115) @@ ("t" :> 116)

HexDigits ==
    <<"0", "1", "2", "3", "4", "5", "6", "7",
      "8", "9", "a", "b", "c", "d", "e", "f">>

RECURSIVE WeightedSum(_, _)
WeightedSum(u, i) ==
    IF i > Len(u) THEN 0 ELSE i * Ord[u[i]] + WeightedSum(u, i + 1)

\* hashlib.md5(url.encode("utf-8")).hexdigest()[:8]: eight hexadecimal
\* digits that are a function of every character of the URL.  MD5 itself
\* is stood for by a position-weighted checksum, which has the digest's
\* shape and, like it, collisions.
short_hash(u) ==
    LET sum == WeightedSum(u, 1) % 256
    IN  <<"0", "0", "0", "0", "0", "0",
          HexDigits[(sum \div 16) + 1], HexDigits[(sum % 16) + 1]>>

\* re.search(...) is None for the empty string alone (every alternative
\* needs a character for (.+?)), and None.group raises AttributeError.
make_remote_name(u) ==
    IF u = <<>> THEN Raise("AttributeError")
    ELSE Ok(replace_slash(lower(group2(SliceFrom(u, group1_end(u)))))
            \o <<"-">> \o short_hash(u))

\* The URLs make_remote_name is applied to: up to MaxUrl pieces in a row.
UrlPieces ==
    {<<"s", ":", "/", "/">>, <<"h">>, <<"R">>, <<"/">>, <<":">>, DotGit}

RECURSIVE Flatten(_)
Flatten(ps) == IF ps = <<>> THEN <<>> ELSE Head(ps) \o Flatten(Tail(ps))

NameInit ==
    /\ remote_url \in {Flatten(ps) : ps \in SeqsUpTo(UrlPieces, MaxUrl)}
    /\ n_pc = "start"
    /\ named = Ok(<<>>)

CallMakeRemoteName ==
    /\ n_pc = "start"
    /\ named' = make_remote_name(remote_url)
    /\ n_pc' = "called"
    /\ UNCHANGED remote_url
    /\ UNCHANGED nameFrame

NameNext == CallMakeRemoteName

\* No name is being derived (the other parts of the model are at work).
NameIdle == remote_url = <<>> /\ n_pc = "idle" /\ named = Ok(<<>>)

---------------------------------------------------------------------------
(* The pure functions applied to every argument list within the bounds.    *)

ArgInit ==
    /\ kind \in {"git", "clone"}
    /\ args \in SeqsUpTo(IF kind = "git" THEN GitTokens ELSE CloneTokens,
                         MaxArgs)
    /\ repo_is_dir = FALSE
    /\ op = "none"
    /\ out = Ok(<<>>)

CallInject ==
    /\ op = "none" /\ kind = "git"
    /\ \E is_dir \in BOOLEAN :
          /\ repo_is_dir' = is_dir
          /\ out' = inject_reference_repo_arg(args, is_dir)
    /\ op' = "inject_reference_repo_arg"
    /\ UNCHANGED <<kind, args>>
    /\ UNCHANGED argFrame

CallDrop ==
    /\ op = "none" /\ kind = "git"
    /\ out' = drop_pre_command_git_args(args)
    /\ op' = "drop_pre_command_git_args"
    /\ UNCHANGED <<kind, args, repo_is_dir>>
    /\ UNCHANGED argFrame

CallCloneTarget ==
    /\ op = "none" /\ kind = "clone"
    /\ out' = get_clone_target_path(args)
    /\ op' = "get_clone_target_path"
    /\ UNCHANGED <<kind, args, repo_is_dir>>
    /\ UNCHANGED argFrame

\* get_client_repo_root, with the argument list as sys.argv[1:].
CallRepoRoot ==
    /\ op = "none" /\ kind = "git"
    /\ out' = get_client_repo_root(args)
    /\ op' = "get_client_repo_root"
    /\ UNCHANGED <<kind, args, repo_is_dir>>
    /\ UNCHANGED argFrame

ArgNext == CallInject \/ CallDrop \/ CallCloneTarget \/ CallRepoRoot

\* No function is being applied (the other parts of the model are at work).
ArgIdle ==
    /\ kind = "git" /\ args = <<>> /\ repo_is_dir = FALSE
    /\ op = "idle" /\ out = Ok(<<>>)

---------------------------------------------------------------------------
(* refrepo_git.py: the Config Store (write_remote_confs, atomic_write),    *)
(* written by wrapper processes that run at the same time.  A file is a    *)
(* directory entry naming an inode; each atomic_write call that gets past  *)
(* its is_file() test creates one inode, named by the call <<p, i>>.       *)

Procs == 1..MaxWrites
Inodes == Procs \X (1..MaxWrites)
NoInode == <<0, 0>>

\* Fetch URLs of three repositories, two of them with a "." in their
\* name: h:a.b.git, h:a.c.git and h:d.git.
StoreUrls ==
    {<<"h", ":", "a", ".", "b">> \o DotGit,
     <<"h", ":", "a", ".", "c">> \o DotGit,
     <<"h", ":", "d">> \o DotGit}

\* Remote records as extract_remote_conf builds them.
RemoteSet == {[name |-> make_remote_name(u).val, url |-> u] : u \in StoreUrls}

\* The content of an inode that no call has created yet.
Absent == <<"absent">>

\* str.strip(): leading and trailing whitespace removed.
Whitespace == {" ", "\n", "\t", "\r"}
RECURSIVE lstrip(_)
lstrip(str) ==
    IF str # <<>> /\ Head(str) \in Whitespace THEN lstrip(Tail(str)) ELSE str
RECURSIVE rstrip(_)
rstrip(str) ==
    IF str # <<>> /\ str[Len(str)] \in Whitespace
    THEN rstrip(SliceTo(str, Len(str) - 1)) ELSE str
strip(str) == lstrip(rstrip(str))

\* PurePath.suffix: from the last "." of the name, unless the name starts
\* or ends with it; with_suffix(".remote") replaces it.  The value is the
\* stem of the resulting "<stem>.remote".
with_suffix_stem(name) ==
    LET i == RFind(name, ".")
    IN  IF 0 < i /\ i < Len(name) - 1 THEN SliceTo(name, i) ELSE name

FileStems == {with_suffix_stem(r.name) : r \in RemoteSet}

\* The remote process p is handling, its target file and its inode.
CurRemote(p) == remotes[p][nth[p] + 1]
CurTarget(p) == with_suffix_stem(CurRemote(p).name)
CurInode(p) == <<p, nth[p] + 1>>

CallIds(rem) == UNION {{<<p, i>> : i \in 1..Len(rem[p])} : p \in Procs}

\* path.is_file(), line 186, on the inode the name refers to.  (Before
\* it, the slip of not looking: the file is always taken to be absent.)
is_file_never(e) == FALSE
is_file(e) == e # NoInode

\* get_remotes (refrepo_ace.py) on a directory nobody is writing to: one
\* record per "<stem>.remote" file, its url the stripped content.
get_remotes(dir, content) ==
    {[name |-> f, url |-> strip(content[dir[f]])] :
        f \in {g \in DOMAIN dir : is_file(dir[g])}}

\* The reader before it has started.
ReaderStart == [pc |-> "start", files |-> {}, listed |-> {}]

StoreInit ==
    /\ posix \in BOOLEAN
    /\ conf_is_dir \in BOOLEAN
    /\ remotes \in [Procs -> SeqsUpTo(RemoteSet, MaxWrites)]
    /\ Cardinality(CallIds(remotes)) <= MaxWrites
    \* the processes are alike: they are numbered longest list first
    /\ \A p \in Procs \ {MaxWrites} : Len(remotes[p]) >= Len(remotes[p + 1])
    /\ nth = [p \in Procs |-> 0]
    /\ wpc = [p \in Procs |-> "start"]
    /\ entry = [f \in FileStems |-> NoInode]
    /\ tmp = {}
    /\ disk = [i \in Inodes |-> Absent]
    /\ ret = [p \in Procs |-> <<>>]
    /\ reader = ReaderStart

\* write_remote_confs, lines 201-203.
WriteConfsStart(p) ==
    /\ wpc[p] = "start"
    /\ wpc' = [wpc EXCEPT ![p] = IF conf_is_dir THEN "loop" ELSE "done"]
    /\ UNCHANGED <<posix, conf_is_dir, remotes, nth, entry, tmp, disk, ret, reader>>
    /\ UNCHANGED storeFrame

\* The end of the for loop of line 205.
WriteConfsEnd(p) ==
    /\ wpc[p] = "loop" /\ nth[p] >= Len(remotes[p])
    /\ wpc' = [wpc EXCEPT ![p] = "done"]
    /\ UNCHANGED <<posix, conf_is_dir, remotes, nth, entry, tmp, disk, ret, reader>>
    /\ UNCHANGED storeFrame

\* The next remote (lines 205-207) and atomic_write's test of line 186:
\* the file is there, and the call returns None.
IsFilePresent(p) ==
    /\ wpc[p] = "loop" /\ nth[p] < Len(remotes[p])
    /\ is_file(entry[CurTarget(p)])
    /\ ret' = [ret EXCEPT ![p] = Append(@, "None")]
    /\ nth' = [nth EXCEPT ![p] = @ + 1]
    /\ UNCHANGED <<posix, conf_is_dir, remotes, wpc, entry, tmp, disk, reader>>
    /\ UNCHANGED storeFrame

\* The same test when the file is not there.
IsFileAbsent(p) ==
    /\ wpc[p] = "loop" /\ nth[p] < Len(remotes[p])
    /\ ~is_file(entry[CurTarget(p)])
    /\ wpc' = [wpc EXCEPT ![p] = "create"]
    /\ UNCHANGED <<posix, conf_is_dir, remotes, nth, entry, tmp, disk, ret, reader>>
    /\ UNCHANGED storeFrame

\* Lines 187-191: the temporary file is created, empty; write() leaves the
\* short URL in the file object's buffer, which nothing flushes yet.
CreateTmp(p) ==
    /\ wpc[p] = "create"
    /\ tmp' = tmp \cup {CurInode(p)}
    /\ disk' = [disk EXCEPT ![CurInode(p)] = <<>>]
    /\ wpc' = [wpc EXCEPT ![p] = "rename"]
    /\ UNCHANGED <<posix, conf_is_dir, remotes, nth, entry, ret, reader>>
    /\ UNCHANGED storeFrame

\* os.rename onto an existing file: replaces it silently on POSIX and
\* raises FileExistsError on Windows; it succeeds when there is none.
rename_succeeds(target_present) == posix \/ ~target_present

\* Line 193.
Rename(p) ==
    /\ wpc[p] = "rename"
    /\ IF rename_succeeds(entry[CurTarget(p)] # NoInode)
       THEN /\ entry' = [entry EXCEPT ![CurTarget(p)] = CurInode(p)]
            /\ tmp' = tmp \ {CurInode(p)}
            /\ wpc' = [wpc EXCEPT ![p] = "return_true"]
       ELSE /\ wpc' = [wpc EXCEPT ![p] = "unlink"]
            /\ UNCHANGED <<entry, tmp>>
    /\ UNCHANGED <<posix, conf_is_dir, remotes, nth, disk, ret, reader>>
    /\ UNCHANGED storeFrame

\* Line 194: the return drops the last reference to tmp_file, whose close
\* writes the buffered URL into the inode.
ReturnTrue(p) ==
    /\ wpc[p] = "return_true"
    /\ disk' = [disk EXCEPT ![CurInode(p)] = CurRemote(p).url]
    /\ ret' = [ret EXCEPT ![p] = Append(@, "True")]
    /\ nth' = [nth EXCEPT ![p] = @ + 1]
    /\ wpc' = [wpc EXCEPT ![p] = "loop"]
    /\ UNCHANGED <<posix, conf_is_dir, remotes, entry, tmp, reader>>
    /\ UNCHANGED storeFrame

\* Lines 195-197: the temporary name is removed; the close at the return
\* writes the URL into the inode, which no name refers to any more.
UnlinkReturnFalse(p) ==
    /\ wpc[p] = "unlink"
    /\ tmp' = tmp \ {CurInode(p)}
    /\ disk' = [disk EXCEPT ![CurInode(p)] = CurRemote(p).url]
    /\ ret' = [ret EXCEPT ![p] = Append(@, "False")]
    /\ nth' = [nth EXCEPT ![p] = @ + 1]
    /\ wpc' = [wpc EXCEPT ![p] = "loop"]
    /\ UNCHANGED <<posix, conf_is_dir, remotes, entry, reader>>
    /\ UNCHANGED storeFrame

\* get_remotes in a maintenance process, while the wrappers write: the
\* glob of line 81 finds the "*.remote" files that are there now.  (A
\* temporary file has a name of NamedTemporaryFile's making, with no
\* ".remote" at its end.)
ReaderGlob ==
    /\ reader.pc = "start"
    /\ reader' = [pc |-> "read",
                  files |-> {f \in FileStems : is_file(entry[f])},
                  listed |-> {}]
    /\ UNCHANGED <<posix, conf_is_dir, remotes, nth, wpc, entry, tmp, disk,
                   ret>>
    /\ UNCHANGED storeFrame

\* Lines 82-85 for one of the files found: its stem and what read_text
\* finds in it at this moment.
ReaderRead ==
    /\ reader.pc = "read"
    /\ \E f \in reader.files :
          reader' = [reader EXCEPT
                        !.files = @ \ {f},
                        !.listed = @ \cup {[name |-> f,
                                            url |-> strip(disk[entry[f]])]}]
    /\ UNCHANGED <<posix, conf_is_dir, remotes, nth, wpc, entry, tmp, disk,
                   ret>>
    /\ UNCHANGED storeFrame

\* Line 87.
ReaderReturn ==
    /\ reader.pc = "read" /\ reader.files = {}
    /\ reader' = [reader EXCEPT !.pc = "done"]
    /\ UNCHANGED <<posix, conf_is_dir, remotes, nth, wpc, entry, tmp, disk,
                   ret>>
    /\ UNCHANGED storeFrame

WriterNext(p) ==
    \/ WriteConfsStart(p)
    \/ WriteConfsEnd(p)
    \/ IsFilePresent(p)
    \/ IsFileAbsent(p)
    \/ CreateTmp(p)
    \/ Rename(p)
    \/ ReturnTrue(p)
    \/ UnlinkReturnFalse(p)

StoreNext ==
    \/ \E p \in Procs : WriterNext(p)
    \/ ReaderGlob
    \/ ReaderRead
    \/ ReaderReturn

\* No wrapper process is writing (the other parts of the model are at work).
StoreIdle ==
    /\ posix = TRUE /\ conf_is_dir = FALSE
    /\ remotes = [p \in Procs |-> <<>>]
    /\ nth = [p \in Procs |-> 0]
    /\ wpc = [p \in Procs |-> "idle"]
    /\ entry = [f \in FileStems |-> NoInode]
    /\ tmp = {}
    /\ disk = [i \in Inodes |-> Absent]
    /\ ret = [p \in Procs |-> <<>>]
    /\ reader = [pc |-> "idle", files |-> {}, listed |-> {}]

---------------------------------------------------------------------------
(* refrepo_git.py: main() and what it calls.                               *)

\* Tokens of the command lines the wrapper is run with.
WrapTokens ==
    {TokClone, TokFetch, TokSubmodule, TokUpdate, TokDashC, TokDir, UrlRepoGit}

\* Return codes of a git process that exits.
GitCodes == {0, 1, 128}

\* How update_required_remotes can end once the repository root is known:
\* a git subprocess fails (check=True), a line of "git remote -v" has
\* fewer than three fields (parts[2]), make_remote_name's regex does not
\* match (None.group), or the remotes reach write_remote_confs.
ReconOutcomes == {"ok", "CalledProcessError", "IndexError", "AttributeError"}

\* An alternates file: whether it exists, and its text.
NoAlt == [exists |-> FALSE, text |-> <<>>]
AltFile(t) == [exists |-> TRUE, text |-> t]

\* str(objects_path), for the reference repository of RefRepoPath, and
\* the object directory of some other repository.
ObjectsPath == RefRepoPath \o <<"/", "o", "b", "j", "e", "c", "t", "s">>
OtherPath == <<"/", "x">>

\* str.split(sep) for a one-character separator.
RECURSIVE Split(_, _)
Split(str, sep) ==
    LET hits == {i \in 1..Len(str) : str[i] = sep}
    IN  IF hits = {} THEN <<str>>
        ELSE <<SliceTo(str, Least(hits) - 1)>>
             \o Split(SliceFrom(str, Least(hits)), sep)

\* "for line in f": the lines of the text, their "\n" left out (strip()
\* removes it); text after the last "\n" is a line too.
readlines(text) ==
    LET parts == Split(text, "\n")
    IN  IF parts[Len(parts)] = <<>> THEN SliceTo(parts, Len(parts) - 1)
        ELSE parts

\* Path(str), as PurePosixPath parses and compares it: the root ("/", or
\* "//" for exactly two leading slashes) and the components that are
\* neither empty nor "."; Path("") is Path(".").
Path(str) ==
    LET lead == IF \A i \in 1..Len(str) : str[i] = "/" THEN Len(str)
                ELSE Least({i \in 1..Len(str) : str[i] # "/"}) - 1
        root == IF lead = 0 THEN <<>>
                ELSE IF lead = 2 THEN <<"/", "/">> ELSE <<"/">>
    IN  <<root>> \o SelectSeq(Split(str, "/"),
                              LAMBDA x : x # <<>> /\ x # <<".">>)

\* The scan of lines 300-306: unless a line names the path, the path and
\* a "\n" are written where the reading stopped, at the end of the file.
append_if_absent(text) ==
    IF \E i \in 1..Len(readlines(text)) :
          Path(strip(readlines(text)[i])) = Path(ObjectsPath)
    THEN text
    ELSE text \o ObjectsPath \o <<"\n">>

\* add_alternates: the exception it raises, if any, and the alternates
\* file it leaves.
add_alternates(a, objects_is_dir, info_is_dir, f) ==
    IF ~objects_is_dir THEN [exc |-> "none", alt |-> f]
    ELSE LET root == get_client_repo_root(a)
         IN  IF root.exc # "none" THEN [exc |-> root.exc, alt |-> f]
             ELSE IF ~info_is_dir THEN [exc |-> "none", alt |-> f]
             ELSE LET touched == IF f.exists THEN f ELSE AltFile(<<>>)
                      d == drop_pre_command_git_args(a)
                  IN  IF d.exc # "none"
                      THEN [exc |-> d.exc, alt |-> touched]
                      ELSE IF Len(d.val) >= 1 /\ d.val[1] = TokFetch
                      THEN [exc |-> "none",
                            alt |-> AltFile(append_if_absent(touched.text))]
                      ELSE [exc |-> "none", alt |-> touched]

should_update_remotes(a) ==
    LET d == drop_pre_command_git_args(a)
    IN  IF d.exc # "none" THEN d
        ELSE IF Len(d.val) >= 1
                /\ d.val[1] \in {TokClone, TokFetch, TokPull, TokCheckout}
             THEN Ok(TRUE)
        ELSE IF Len(d.val) >= 2 /\ d.val[1] = TokSubmodule
                /\ d.val[2] = TokUpdate
             THEN Ok(TRUE)
        ELSE Ok(FALSE)

\* wrap_git: sys.exit(returncode) when it is not 0.  (Before it, the slip
\* of not looking at the return code.)
wrap_git_never_exits(rc) == FALSE
wrap_git_exits(rc) == rc # 0

\* The exit code of an exception that nothing catches (traceback).
UncaughtExit == 1

\* The try/except of lines 346-351: main() ends after it whatever
\* reconciliation raised, and the interpreter exits with 0.  (Before it,
\* the slip of letting the exception out of main().)
exit_after_reconcile_propagated(exc) == IF exc # "none" THEN UncaughtExit ELSE 0
exit_after_reconcile(exc) == 0

\* wrap_git_and_exit: sys.exit(returncode) in wrap_git, else sys.exit(0).
wrap_git_and_exit_zero(rc) == 0
wrap_git_and_exit_code(rc) == IF wrap_git_exits(rc) THEN rc ELSE 0

NotRaised == [in |-> "none", exc |-> "none"]

\* The Config Store with no file in it, and with the file that the
\* remote h:a.b.git was registered in.
EmptyStore == [f \in FileStems |-> Absent]
StoreWith(r) == [EmptyStore EXCEPT ![with_suffix_stem(r.name)] = r.url]
RegisteredBefore ==
    CHOOSE r \in RemoteSet : r.url = <<"h", ":", "a", ".", "b">> \o DotGit

\* The remote records update_required_remotes hands to
\* write_remote_confs (line 243): those of the repository, then those of
\* its submodules.
FoundRemotes == SeqsUpTo(RemoteSet, MaxFound)

\* atomic_write while no other process writes to the directory: a file
\* that is there is left as it is, else it is created with the data.
atomic_write(store, stem, data) ==
    IF store[stem] # Absent THEN store ELSE [store EXCEPT ![stem] = data]

\* write_remote_confs: nothing when the conf directory is missing, else
\* an atomic_write per remote, in order.
RECURSIVE write_remote_confs(_, _, _)
write_remote_confs(rs, target_is_dir, store) ==
    IF ~target_is_dir \/ rs = <<>> THEN store
    ELSE write_remote_confs(
             Tail(rs), target_is_dir,
             atomic_write(store, with_suffix_stem(Head(rs).name),
                          Head(rs).url))

WrapInit ==
    /\ w_pc = "main"
    /\ root_set \in BOOLEAN
    /\ argv \in SeqsUpTo(WrapTokens, MaxArgv)
    /\ wargs = <<>>
    /\ alt \in {NoAlt, AltFile(<<>>), AltFile(OtherPath \o <<"\n">>),
                AltFile(ObjectsPath \o <<"\n">>), AltFile(OtherPath)}
    /\ git_ran = FALSE /\ git_args = <<>> /\ git_code = -1
    /\ exit_code = -1
    /\ raised = NotRaised
    /\ recon = "not_started"
    /\ steps = <<>>
    /\ w_store \in {EmptyStore, StoreWith(RegisteredBefore)}

\* Lines 332-335: no root directory, wrap_git_and_exit starts git on the
\* arguments as given (subprocess.run, line 74) and waits for it.
MainPassThrough ==
    /\ w_pc = "main" /\ ~root_set
    /\ git_args' = argv
    /\ steps' = Append(steps, "wrap_git")
    /\ w_pc' = "wait_git_exit"
    /\ UNCHANGED <<root_set, argv, wargs, alt, git_ran, git_code, exit_code,
                   raised, recon, w_store>>
    /\ UNCHANGED wrapFrame

\* The git process ends, subprocess.run returns, and wrap_git_and_exit
\* ends the wrapper (lines 75-76, 81).
PassThroughGitExits ==
    /\ w_pc = "wait_git_exit"
    /\ \E rc \in GitCodes :
          /\ git_code' = rc
          /\ exit_code' = wrap_git_and_exit_code(rc)
    /\ git_ran' = TRUE
    /\ w_pc' = "exited"
    /\ UNCHANGED <<root_set, argv, wargs, alt, git_args, raised, recon, steps,
                   w_store>>
    /\ UNCHANGED wrapFrame

\* Line 341.
MainInject ==
    /\ w_pc = "main" /\ root_set
    /\ \E is_dir \in BOOLEAN :
          LET r == inject_reference_repo_arg(argv, is_dir)
          IN  IF r.exc # "none"
              THEN /\ raised' = [in |-> "inject_reference_repo_arg",
                                 exc |-> r.exc]
                   /\ exit_code' = UncaughtExit
                   /\ w_pc' = "exited"
                   /\ UNCHANGED wargs
              ELSE /\ wargs' = r.val
                   /\ w_pc' = "alternates"
                   /\ UNCHANGED <<raised, exit_code>>
    /\ steps' = Append(steps, "inject_reference_repo_arg")
    /\ UNCHANGED <<root_set, argv, alt, git_ran, git_args, git_code, recon,
                   w_store>>
    /\ UNCHANGED wrapFrame

\* Line 342.
MainAddAlternates ==
    /\ w_pc = "alternates"
    /\ \E objects_is_dir, info_is_dir \in BOOLEAN :
          LET r == add_alternates(argv, objects_is_dir, info_is_dir, alt)
          IN  /\ alt' = r.alt
              /\ IF r.exc # "none"
                 THEN /\ raised' = [in |-> "add_alternates", exc |-> r.exc]
                      /\ exit_code' = UncaughtExit
                      /\ w_pc' = "exited"
                 ELSE /\ w_pc' = "git"
                      /\ UNCHANGED <<raised, exit_code>>
    /\ steps' = Append(steps, "add_alternates")
    /\ UNCHANGED <<root_set, argv, wargs, git_ran, git_args, git_code, recon,
                   w_store>>
    /\ UNCHANGED wrapFrame

\* Line 344: wrap_git starts git on the arguments inject_reference_repo_arg
\* returned (subprocess.run, line 74) and waits for it.
MainWrapGit ==
    /\ w_pc = "git"
    /\ git_args' = wargs
    /\ steps' = Append(steps, "wrap_git")
    /\ w_pc' = "wait_git"
    /\ UNCHANGED <<root_set, argv, wargs, alt, git_ran, git_code, exit_code,
                   raised, recon, w_store>>
    /\ UNCHANGED wrapFrame

\* The git process ends and subprocess.run returns; lines 75-76.
WrappedGitExits ==
    /\ w_pc = "wait_git"
    /\ \E rc \in GitCodes :
          /\ git_code' = rc
          /\ IF wrap_git_exits(rc)
             THEN exit_code' = rc /\ w_pc' = "exited"
             ELSE exit_code' = exit_code /\ w_pc' = "reconcile"
    /\ git_ran' = TRUE
    /\ UNCHANGED <<root_set, argv, wargs, alt, git_args, raised, recon, steps,
                   w_store>>
    /\ UNCHANGED wrapFrame

\* Lines 346-347, with 349-351 for an exception of should_update_remotes:
\* the test on the arguments git was run with, and the call of
\* update_required_remotes when it holds.
MainShouldUpdate ==
    /\ w_pc = "reconcile"
    /\ LET su == should_update_remotes(wargs)
       IN  IF su.exc # "none"
           THEN /\ recon' = "raised"
                /\ raised' = [in |-> "reconcile", exc |-> su.exc]
                /\ exit_code' = exit_after_reconcile(su.exc)
                /\ steps' = Append(steps, "should_update_remotes")
                /\ w_pc' = "exited"
           ELSE IF ~su.val
           THEN /\ recon' = "not_needed"
                /\ exit_code' = exit_after_reconcile("none")
                /\ steps' = Append(steps, "should_update_remotes")
                /\ w_pc' = "exited"
                /\ UNCHANGED raised
           ELSE /\ recon' = "started"
                /\ steps' = steps \o <<"should_update_remotes",
                                       "update_required_remotes">>
                /\ w_pc' = "update_remotes"
                /\ UNCHANGED <<raised, exit_code>>
    /\ UNCHANGED <<root_set, argv, wargs, alt, git_ran, git_args, git_code,
                   w_store>>
    /\ UNCHANGED wrapFrame

\* Line 348 (update_required_remotes, lines 211-243) with 349-351, and
\* the end of main().
MainUpdateRemotes ==
    /\ w_pc = "update_remotes"
    /\ LET root == get_client_repo_root(argv)
       IN  \E outcome \in ReconOutcomes :
             LET exc == IF root.exc # "none" THEN root.exc
                        ELSE IF outcome # "ok" THEN outcome
                        ELSE "none"
             IN  /\ recon' = IF exc # "none" THEN "raised" ELSE "written"
                 /\ raised' = IF exc # "none"
                              THEN [in |-> "reconcile", exc |-> exc]
                              ELSE raised
                 /\ exit_code' = exit_after_reconcile(exc)
                 /\ IF exc # "none" THEN w_store' = w_store
                    ELSE \E found \in FoundRemotes, target_is_dir \in BOOLEAN :
                            w_store' = write_remote_confs(found, target_is_dir,
                                                          w_store)
    /\ w_pc' = "exited"
    /\ UNCHANGED <<root_set, argv, wargs, alt, git_ran, git_args, git_code,
                   steps>>
    /\ UNCHANGED wrapFrame

WrapNext ==
    \/ MainPassThrough
    \/ PassThroughGitExits
    \/ MainInject
    \/ MainAddAlternates
    \/ MainWrapGit
    \/ WrappedGitExits
    \/ MainShouldUpdate
    \/ MainUpdateRemotes

\* No wrapper is being run (the other parts of the model are at work).
WrapIdle ==
    /\ w_pc = "idle" /\ root_set = FALSE /\ argv = <<>> /\ wargs = <<>>
    /\ alt = NoAlt
    /\ git_ran = FALSE /\ git_args = <<>> /\ git_code = -1
    /\ exit_code = -1
    /\ raised = NotRaised
    /\ recon = "not_started"
    /\ steps = <<>>
    /\ w_store = EmptyStore

---------------------------------------------------------------------------
(* refrepo_git.py: add_alternates over the fetch invocations made in one   *)
(* local repository, whose .git/objects/info directory exists, with the    *)
(* reference repository's objects directory existing as well.              *)

\* What the alternates file may hold before the first invocation.
AltPieces == {ObjectsPath, OtherPath, <<"\n">>, <<" ">>, <<"/">>}

\* Command lines whose subcommand is fetch.
FetchCommands ==
    {<<TokFetch>>, <<TokFetch, TokDir>>, <<TokDashC, TokDir, TokFetch>>}

AltInit ==
    /\ alt_prior \in {NoAlt} \cup {AltFile(Flatten(ps)) :
                                     ps \in SeqsUpTo(AltPieces, MaxAlt)}
    /\ alt_now = alt_prior
    /\ fetches = 0

\* One wrapper run on a fetch command line: line 342 of main().
FetchInvocation ==
    /\ fetches < MaxFetches
    /\ \E a \in FetchCommands :
          alt_now' = add_alternates(a, TRUE, TRUE, alt_now).alt
    /\ fetches' = fetches + 1
    /\ UNCHANGED alt_prior
    /\ UNCHANGED altFrame

AltNext == FetchInvocation

\* No alternates file is followed (the other parts of the model are at
\* work).
AltIdle == alt_prior = NoAlt /\ alt_now = NoAlt /\ fetches = 0

---------------------------------------------------------------------------
(* refrepo_ace.py: a maintenance run, update(), while wrapper processes    *)
(* go on registering remotes in the conf directory.                        *)

\* A remote of the reference repository that no conf file asks for.
NameOld == <<"o", "l", "d">>

\* The remote names the reference repository can hold.
RepoNames == FileStems \cup {NameOld}

\* discardable_remotes, line 117 (before it, the slip of dropping none).
discard_none(have, want) == {}
discardable_remotes(have, want) == have \ want

\* Line 104 (before it, the slip of adding every requested remote).
is_new_remote_always(n, have) == TRUE
is_new_remote(n, have) == n \notin have

NoneCompleted == [listed |-> {}, at_done |-> {}]

MaintInit ==
    /\ m_pc = "init_root"
    /\ repo_path \in {"absent", "file", "dir", "repo"}
    /\ repo_remotes \in SUBSET RepoNames
    /\ repo_path # "repo" => repo_remotes = {}
    /\ conf_names \in SUBSET FileStems
    /\ existing = {}
    /\ requested = {}
    /\ pending = {}
    /\ run = 1
    /\ ops = 0
    /\ prev = NoneCompleted

\* init_root (lines 68-74): a regular file at the path is removed, and a
\* bare repository is created when nothing is there; git may fail.
InitRoot ==
    /\ m_pc = "init_root"
    /\ IF repo_path \in {"absent", "file"}
       THEN \/ repo_path' = "repo" /\ m_pc' = "list_existing"
            \/ repo_path' = "absent" /\ m_pc' = "failed"
       ELSE repo_path' = repo_path /\ m_pc' = "list_existing"
    /\ UNCHANGED <<repo_remotes, conf_names, existing, requested, pending>>
    /\ UNCHANGED <<run, ops, prev>>
    /\ UNCHANGED maintFrame

\* Lines 95-97: "git -C <repo> remote"; it fails in a directory that is
\* no repository.
ListExisting ==
    /\ m_pc = "list_existing"
    /\ IF repo_path = "repo"
       THEN existing' = repo_remotes /\ m_pc' = "get_remotes"
       ELSE existing' = existing /\ m_pc' = "failed"
    /\ UNCHANGED <<repo_path, repo_remotes, conf_names, requested, pending>>
    /\ UNCHANGED <<run, ops, prev>>
    /\ UNCHANGED maintFrame

\* get_remotes (lines 77-87), called at line 100: the *.remote files that
\* are in the conf directory now.
GetRemotes ==
    /\ m_pc = "get_remotes"
    /\ pending' = conf_names
    /\ requested' = {}
    /\ m_pc' = "add"
    /\ UNCHANGED <<repo_path, repo_remotes, conf_names, existing>>
    /\ UNCHANGED <<run, ops, prev>>
    /\ UNCHANGED maintFrame

\* One turn of the for loop of lines 102-114; "git remote add" may fail.
AddRequested ==
    /\ m_pc = "add"
    /\ \E n \in pending :
          /\ pending' = pending \ {n}
          /\ requested' = requested \cup {n}
          /\ IF is_new_remote(n, existing)
             THEN /\ \/ repo_remotes' = repo_remotes \cup {n} /\ m_pc' = "add"
                     \/ repo_remotes' = repo_remotes /\ m_pc' = "failed"
                  /\ ops' = ops + 1
             ELSE repo_remotes' = repo_remotes /\ m_pc' = "add" /\ ops' = ops
    /\ UNCHANGED <<repo_path, conf_names, existing>>
    /\ UNCHANGED <<run, prev>>
    /\ UNCHANGED maintFrame

\* The end of that loop.
AddDone ==
    /\ m_pc = "add" /\ pending = {}
    /\ m_pc' = "remove"
    /\ UNCHANGED <<repo_path, repo_remotes, conf_names, existing, requested,
                   pending>>
    /\ UNCHANGED <<run, ops, prev>>
    /\ UNCHANGED maintFrame

\* One turn of the for loop of lines 117-120; "git remote remove" may fail.
RemoveDiscardable ==
    /\ m_pc = "remove"
    /\ \E n \in discardable_remotes(existing, requested) \cap repo_remotes :
          \/ repo_remotes' = repo_remotes \ {n} /\ m_pc' = "remove"
          \/ repo_remotes' = repo_remotes /\ m_pc' = "failed"
    /\ ops' = ops + 1
    /\ UNCHANGED <<repo_path, conf_names, existing, requested, pending>>
    /\ UNCHANGED <<run, prev>>
    /\ UNCHANGED maintFrame

\* Line 123 once every discardable remote is removed: "git fetch --all"
\* ends the run, or fails.
FetchAll ==
    /\ m_pc = "remove"
    /\ discardable_remotes(existing, requested) \cap repo_remotes = {}
    /\ \/ /\ m_pc' = "done"
          /\ prev' = [listed |-> requested, at_done |-> conf_names]
       \/ m_pc' = "failed" /\ prev' = prev
    /\ UNCHANGED <<repo_path, repo_remotes, conf_names, existing, requested,
                   pending>>
    /\ UNCHANGED <<run, ops>>
    /\ UNCHANGED maintFrame

\* A wrapper process, at any time: the rename of atomic_write
\* (refrepo_git.py, line 193) puts a new *.remote file in the directory.
WrapperRegisters ==
    /\ \E n \in FileStems \ conf_names : conf_names' = conf_names \cup {n}
    /\ UNCHANGED <<m_pc, repo_path, repo_remotes, existing, requested, pending>>
    /\ UNCHANGED <<run, ops, prev>>
    /\ UNCHANGED maintFrame

\* The next maintenance run, after one that completed: update() is
\* entered again (refrepo_ace.py main(), line 199, in a new process).
NextRun ==
    /\ m_pc = "done" /\ run < MaxRuns
    /\ m_pc' = "init_root"
    /\ run' = run + 1
    /\ ops' = 0
    /\ existing' = {} /\ requested' = {} /\ pending' = {}
    /\ UNCHANGED <<repo_path, repo_remotes, conf_names, prev>>
    /\ UNCHANGED maintFrame

MaintNext ==
    \/ NextRun
    \/ InitRoot
    \/ ListExisting
    \/ GetRemotes
    \/ AddRequested
    \/ AddDone
    \/ RemoveDiscardable
    \/ FetchAll
    \/ WrapperRegisters

\* No maintenance run (the other parts of the model are at work).
MaintIdle ==
    /\ m_pc = "idle" /\ repo_path = "absent" /\ repo_remotes = {}
    /\ conf_names = {} /\ existing = {} /\ requested = {} /\ pending = {}
    /\ run = 0 /\ ops = 0 /\ prev = NoneCompleted

---------------------------------------------------------------------------
(* The specifications: one part of the model at work, the others idle.     *)

InitArgs == ArgInit /\ StoreIdle /\ WrapIdle /\ MaintIdle /\ NameIdle /\ AltIdle
SpecArgs == InitArgs /\ [][ArgNext]_vars

InitStore == StoreInit /\ ArgIdle /\ WrapIdle /\ MaintIdle /\ NameIdle /\ AltIdle
SpecStore == InitStore /\ [][StoreNext]_vars

InitWrap == WrapInit /\ ArgIdle /\ StoreIdle /\ MaintIdle /\ NameIdle /\ AltIdle
SpecWrap == InitWrap /\ [][WrapNext]_vars

InitMaint == MaintInit /\ ArgIdle /\ StoreIdle /\ WrapIdle /\ NameIdle /\ AltIdle
SpecMaint == InitMaint /\ [][MaintNext]_vars

InitName == NameInit /\ ArgIdle /\ StoreIdle /\ WrapIdle /\ MaintIdle /\ AltIdle
SpecName == InitName /\ [][NameNext]_vars

InitAlt ==
    AltInit /\ ArgIdle /\ StoreIdle /\ WrapIdle /\ MaintIdle /\ NameIdle
SpecAlt == InitAlt /\ [][AltNext]_vars

---------------------------------------------------------------------------
(* The argument grammar as the specification words it, over a token        *)
(* cursor (an index into the unchanged list).                              *)

StartsWithDash(t) == t # <<>> /\ t[1] = "-"

\* No token of the list is the empty string (on which args[0][0] raises).
NoEmptyToken(a) == \A i \in 1..Len(a) : a[i] # <<>>

\* The 1-based index of the subcommand: the first token at or after i that
\* is neither a pre-command option nor the value of a -C or -c; beyond
\* Len(a) when there is none.
RECURSIVE SubcommandIndex(_, _)
SubcommandIndex(a, i) ==
    IF i > Len(a) THEN Len(a) + 1
    ELSE IF ~StartsWithDash(a[i]) THEN i
    ELSE IF a[i] \in {TokDashC, TokDashc} THEN SubcommandIndex(a, i + 2)
    ELSE SubcommandIndex(a, i + 1)

\* The same cursor when a bare "--" ends the skip and is itself dropped.
RECURSIVE SubcommandIndexDashDash(_, _)
SubcommandIndexDashDash(a, i) ==
    IF i > Len(a) THEN Len(a) + 1
    ELSE IF ~StartsWithDash(a[i]) THEN i
    ELSE IF a[i] = TokDashDash THEN i + 1
    ELSE IF a[i] \in {TokDashC, TokDashc}
         THEN SubcommandIndexDashDash(a, i + 2)
    ELSE SubcommandIndexDashDash(a, i + 1)

\* The number of tokens of the subcommand at index s that takes a
\* reference repository (clone: 1, submodule add/update: 2), else 0.
ReferenceSubcommandLen(a, s) ==
    IF s <= Len(a) /\ a[s] = TokClone THEN 1
    ELSE IF s + 1 <= Len(a) /\ a[s] = TokSubmodule
            /\ a[s + 1] \in {TokAdd, TokUpdate} THEN 2
    ELSE 0

\* The positional tokens of the arguments of "clone": what is left once
\* single-token options, two-token options with their values and a "--"
\* terminator are taken out, wherever they stand.
RECURSIVE ClonePositionals(_)
ClonePositionals(a) ==
    IF a = <<>> THEN <<>>
    ELSE IF Head(a) = TokDashDash THEN Tail(a)
    ELSE IF Head(a) \in CloneTwoTokenOptions
         THEN ClonePositionals(SliceFrom(a, 2))
    ELSE IF StartsWithDash(Head(a)) THEN ClonePositionals(Tail(a))
    ELSE <<Head(a)>> \o ClonePositionals(Tail(a))

\* The last path segment of a repository token, one trailing ".git" off.
LastSegmentNoGit(url) ==
    LET seg == SliceFrom(url, RFind(url, "/") + 1)
    IN  IF LastN(seg, 4) = DotGit THEN SliceTo(seg, Len(seg) - 4) ELSE seg

---------------------------------------------------------------------------
(* Claims about the argument-list functions (checked under SpecArgs).      *)

\* C5: when the reference path is a directory and the subcommand found
\* after the pre-command options (-C and -c taking one value each) is
\* clone, submodule add or submodule update, inject_reference_repo_arg
\* returns the original list with "--reference" and the reference path
\* spliced right after the subcommand, every other token kept in order.
C5_ReferenceSpliced ==
    LET s == SubcommandIndex(args, 1)
        n == ReferenceSubcommandLen(args, s)
    IN  (op = "inject_reference_repo_arg" /\ repo_is_dir /\ n > 0)
        => out = Ok(SubSeq(args, 1, s + n - 1)
                    \o <<TokReference, RefRepoPath>>
                    \o SubSeq(args, s + n, Len(args)))

C5_Witness ==
    /\ op = "inject_reference_repo_arg" /\ repo_is_dir
    /\ args = <<TokDashC, TokDir, TokSubmodule, TokUpdate>>
    /\ out = Ok(<<TokDashC, TokDir, TokSubmodule, TokUpdate,
                  TokReference, RefRepoPath>>)

\* C6: when the subcommand is not clone, submodule add or submodule
\* update, or when the reference path is not a directory,
\* inject_reference_repo_arg returns a list identical to its input.
C6_OtherListsUnchanged ==
    LET s == SubcommandIndex(args, 1)
        n == ReferenceSubcommandLen(args, s)
    IN  (op = "inject_reference_repo_arg" /\ (~repo_is_dir \/ n = 0))
        => out = Ok(args)

\* What does hold of the code for C6's lists: the list is returned
\* unchanged unless the subcommand token is the empty string.
C6_UnchangedUnlessEmptySubcommand ==
    LET s == SubcommandIndex(args, 1)
        n == ReferenceSubcommandLen(args, s)
    IN  (op = "inject_reference_repo_arg" /\ (~repo_is_dir \/ n = 0))
        => out = IF repo_is_dir /\ s <= Len(args) /\ args[s] = <<>>
                 THEN Raise("IndexError")
                 ELSE Ok(args)

C9_TargetFromRepository ==
    LET p == ClonePositionals(args)
    IN  (op = "get_clone_target_path" /\ NoEmptyToken(args) /\ Len(p) <= 1)
        => IF Len(p) = 1 /\ LastSegmentNoGit(p[1]) # <<>>
           THEN out = Ok(LastSegmentNoGit(p[1]))
           ELSE out.exc # "none"

\* C10: when exactly two positional tokens are left once the options are
\* taken out, get_clone_target_path returns the second of them.
\* (Stated for lists of non-empty tokens, the claim's grammar.)
C10_ExplicitTarget ==
    LET p == ClonePositionals(args)
    IN  (op = "get_clone_target_path" /\ NoEmptyToken(args) /\ Len(p) = 2)
        => out = Ok(p[2])

\* The value of the first -C that has a token after it, <<>> when none.
DashCValue(a) ==
    LET hits == {k \in 1..(Len(a) - 1) : a[k] = TokDashC}
    IN  IF hits = {} THEN <<>>
        ELSE <<a[(CHOOSE k \in hits : \A j \in hits : k <= j) + 1]>>

\* C11: when the subcommand found after the pre-command options is clone,
\* get_client_repo_root returns the clone target path computed from the
\* tokens that follow the clone token; otherwise it returns the value of a
\* -C option if one appears, else the current working directory.
\* (Stated for lists of non-empty tokens, the claim's grammar.)
C11_CloneRootAfterOptions ==
    LET s == SubcommandIndex(args, 1)
    IN  (op = "get_client_repo_root" /\ NoEmptyToken(args))
        => out = IF s <= Len(args) /\ args[s] = TokClone
                 THEN get_clone_target_path(SliceFrom(args, s))
                 ELSE IF DashCValue(args) # <<>> THEN Ok(DashCValue(args)[1])
                 ELSE Ok(Cwd)

\* What does hold of the code for C11: the clone branch is taken only when
\* clone is the very first token.
C11_CloneRootWhenFirstToken ==
    (op = "get_client_repo_root" /\ NoEmptyToken(args))
    => out = IF Len(args) >= 1 /\ args[1] = TokClone
             THEN get_clone_target_path(SliceFrom(args, 1))
             ELSE IF DashCValue(args) # <<>> THEN Ok(DashCValue(args)[1])
             ELSE Ok(Cwd)

---------------------------------------------------------------------------
(* The URL grammar as the specification words it, and the claims about     *)
(* make_remote_name (checked under SpecName).                              *)

\* The index of the ":" of a leading "scheme://", 0 when the URL does not
\* start with one.
SchemeColon(u) ==
    LET colons == {i \in 1..Len(u) : u[i] = ":"}
        c == IF colons = {} THEN 0 ELSE Least(colons)
    IN  IF /\ c >= 2 /\ IsAlpha(u[1])
           /\ \A i \in 2..(c - 1) : IsSchemeChar(u[i])
           /\ c + 2 <= Len(u) /\ u[c + 1] = "/" /\ u[c + 2] = "/"
        THEN c ELSE 0

\* The authority of a scheme:// URL: what stands between "://" and the
\* next "/" (or the end of the URL).
Authority(u) ==
    LET c == SchemeColon(u)
        sl == {e \in (c + 3)..Len(u) : u[e] = "/"}
    IN  SubSeq(u, c + 3, IF sl = {} THEN Len(u) ELSE Least(sl) - 1)

\* The index of the ":" that ends the host of an SCP-style URL (a ":" with
\* a non-empty host and no "/" before it), 0 when there is none.
ScpColon(u) ==
    LET cs == {e \in 2..Len(u) : u[e] = ":" /\ \A i \in 1..(e - 1) : u[i] # "/"}
    IN  IF cs = {} THEN 0 ELSE Least(cs)

\* The path component: everything after the first "/" that follows the
\* authority of a scheme:// URL (nothing when no "/" follows it),
\* everything after the first ":" of an SCP-style URL, else the whole URL.
PathComponent(u) ==
    IF SchemeColon(u) > 0
    THEN SliceFrom(u, SchemeColon(u) + 2 + Len(Authority(u)) + 1)
    ELSE IF ScpColon(u) > 0 THEN SliceFrom(u, ScpColon(u))
    ELSE u

\* One trailing "/" and one trailing ".git" taken off, as "(.git)?/?" at
\* the end of the path reads.
StripGitSlash(path) ==
    LET a == IF path # <<>> /\ path[Len(path)] = "/"
             THEN SliceTo(path, Len(path) - 1) ELSE path
    IN  IF LastN(a, 4) = DotGit THEN SliceTo(a, Len(a) - 4) ELSE a

\* <human>: the stripped path, lowercased, "/" replaced by "_".
HumanComponent(u) == replace_slash(lower(StripGitSlash(PathComponent(u))))

\* C15: for every URL (with a path component to name it by), the name is
\* <human>-<hash8>, where <human> is the path component with one trailing
\* ".git" and one trailing "/" stripped, lowercased, "/" replaced by "_",
\* and <hash8> is the eight-hex-digit function of the original URL.
C15_HumanDashHash ==
    (n_pc = "called" /\ HumanComponent(remote_url) # <<>>)
    => named = Ok(HumanComponent(remote_url) \o <<"-">>
                  \o short_hash(remote_url))

\* What does hold of the code for C15: the name has that form for every
\* URL whose authority, if it is a scheme:// URL, is not empty.
C15_HumanDashHashWithAuthority ==
    (/\ n_pc = "called" /\ HumanComponent(remote_url) # <<>>
     /\ SchemeColon(remote_url) > 0 => Authority(remote_url) # <<>>)
    => named = Ok(HumanComponent(remote_url) \o <<"-">>
                  \o short_hash(remote_url))

\* C16: for every URL without a path component (nothing after the
\* authority of a scheme:// URL, nothing after the ":" of an SCP-style
\* URL, the empty string), make_remote_name raises and returns no name.
C16_NoPathIsAnError ==
    (n_pc = "called" /\ PathComponent(remote_url) = <<>>)
    => named.exc # "none"

---------------------------------------------------------------------------
(* Claims about the Config Store (checked under SpecStore).                *)

\* The atomic_write calls that target file f and returned v.
CallsReturning(f, v) ==
    {c \in CallIds(remotes) :
        /\ with_suffix_stem(remotes[c[1]][c[2]].name) = f
        /\ c[2] <= Len(ret[c[1]])
        /\ ret[c[1]][c[2]] = v}

\* C1: however concurrent atomic_write calls on one entry interleave, the
\* first writer wins: once "<name>.remote" exists it is never replaced by
\* a later writer, and at most one call per entry reports "written".
C1_FirstWriterWins ==
    /\ [][\A f \in FileStems :
             entry[f] # NoInode => entry'[f] = entry[f]]_vars
    /\ [](\A f \in FileStems : Cardinality(CallsReturning(f, "True")) <= 1)

\* Process p writes one record, several times in a row, and no other
\* process writes anything.
SameRecordInSequence(p) ==
    /\ Len(remotes[p]) >= 2
    /\ \A i \in 1..Len(remotes[p]) : remotes[p][i] = remotes[p][1]
    /\ \A q \in Procs \ {p} : remotes[q] = <<>>

\* C12: writing the same name/url pair twice in sequence into an existing
\* config directory leaves exactly one file, the one for that name, with
\* the original content; the first call reports written (True), the
\* second does not (None), and no temporary file is left.
C12_SecondWriteIsNoOp ==
    \A p \in Procs :
        (conf_is_dir /\ SameRecordInSequence(p) /\ wpc[p] = "done")
        => LET f == with_suffix_stem(remotes[p][1].name)
           IN  /\ Len(ret[p]) = Len(remotes[p])
               /\ ret[p][1] = "True"
               /\ \A i \in 2..Len(ret[p]) : ret[p][i] = "None"
               /\ entry[f] = <<p, 1>>
               /\ disk[<<p, 1>>] = remotes[p][1].url
               /\ \A g \in FileStems \ {f} : entry[g] = NoInode
               /\ tmp = {}

C12_Witness ==
    /\ conf_is_dir /\ SameRecordInSequence(1) /\ wpc[1] = "done"
    /\ ret[1][1] = "True" /\ ret[1][2] = "None"
    /\ disk[<<1, 1>>] = remotes[1][1].url
    /\ disk[<<1, 2>>] = Absent

\* C18: every record that one wrapper process, alone, has persisted with
\* write_remote_confs into the empty config directory is listed by
\* get_remotes with exactly its name and its url.
C18_RoundTrip ==
    \A p \in Procs :
        (/\ conf_is_dir /\ wpc[p] = "done"
         /\ \A q \in Procs \ {p} : remotes[q] = <<>>)
        => \A i \in 1..Len(remotes[p]) :
              remotes[p][i] \in get_remotes(entry, disk)

\* What does hold of the code for C18: a record is listed as it was
\* written when its name has no "." in it.
C18_RoundTripWithoutDot ==
    \A p \in Procs :
        (/\ conf_is_dir /\ wpc[p] = "done"
         /\ \A q \in Procs \ {p} : remotes[q] = <<>>)
        => \A i \in 1..Len(remotes[p]) :
              RFind(remotes[p][i].name, ".") < 0
              => remotes[p][i] \in get_remotes(entry, disk)

\* C19: however a wrapper's atomic_write and a maintenance process's
\* get_remotes interleave, every record the reader lists holds the
\* complete URL some writer gave: never an empty or partial one.
C19_ReaderSeesCompleteUrl ==
    \A r \in reader.listed : r.url \in {rec.url : rec \in RemoteSet}

---------------------------------------------------------------------------
(* Claims about the wrapper's main() (checked under SpecWrap).             *)

\* C2: with the root directory configured, a failure inside add_alternates
\* (a clone target that get_client_repo_root cannot determine included)
\* never keeps the wrapped git command from being run, and the wrapper
\* exits with the code of the wrapped git process.
C2_AlternatesFailureHarmless ==
    (w_pc = "exited" /\ root_set /\ raised.in = "add_alternates")
    => (git_ran /\ exit_code = git_code)

\* C3: whenever the wrapped git process has run, the wrapper's exit code
\* is the git process's return code; an exception raised during remote
\* reconciliation is caught and does not change it.
C3_ExitCodeIsGits ==
    (w_pc = "exited" /\ git_ran) => exit_code = git_code

C3_Witness ==
    /\ w_pc = "exited" /\ git_ran /\ root_set
    /\ raised = [in |-> "reconcile", exc |-> "CalledProcessError"]
    /\ git_code = 0 /\ exit_code = 0

\* C8: with the root directory variable unset, the wrapper runs git on
\* the original argument list, injects no reference, leaves the alternates
\* file alone, reconciles no remotes, and exits with git's return code.
C8_PassThrough ==
    /\ [](~root_set /\ w_pc = "exited"
          => /\ git_ran /\ git_args = argv
             /\ exit_code = git_code
             /\ steps = <<"wrap_git">>
             /\ recon = "not_started"
             /\ raised = NotRaised)
    /\ [][~root_set => alt' = alt]_vars

C8_Witness ==
    /\ w_pc = "exited" /\ ~root_set
    /\ argv = <<TokClone, UrlRepoGit>> /\ git_args = argv
    /\ git_code = 128 /\ exit_code = 128

\* There is a subcommand after the pre-command options, and it is not
\* fetch.
OtherSubcommand(a) ==
    LET s == SubcommandIndex(a, 1) IN s <= Len(a) /\ a[s] # TokFetch

\* C20: in a run whose subcommand is not fetch, the alternates file of
\* the local repository is neither created nor modified.
C20_NonFetchLeavesAlternates ==
    [][OtherSubcommand(argv) => alt' = alt]_vars

\* What does hold of the code for C20: such a run leaves an existing
\* alternates file as it is, and may create an empty one.
C20_NonFetchCreatesAtMost ==
    [][OtherSubcommand(argv)
       => (alt' = alt \/ (~alt.exists /\ alt' = AltFile(<<>>)))]_vars

\* The steps of main(), in the order of lines 341-348.
StepOrder ==
    <<"inject_reference_repo_arg", "add_alternates", "wrap_git",
      "should_update_remotes", "update_required_remotes">>
Rank(x) == CHOOSE i \in 1..Len(StepOrder) : StepOrder[i] = x

\* Remote reconciliation (update_required_remotes) has been started.
ReconciliationStarted ==
    \E i \in 1..Len(steps) : steps[i] = "update_required_remotes"

\* C21: the steps of a wrapper run come in the order reference
\* injection, alternates injection, wrapped git command, reconciliation;
\* reconciliation has started only after all three before it, with the
\* wrapped git process terminated, its return code 0, and
\* should_update_remotes true of the invocation's arguments; and a step
\* changes the Config Store only in a run whose git process has exited
\* with 0 and whose reconciliation has started, so a run whose git exits
\* non-zero leaves the store as it was.
C21_StepsInOrder ==
    /\ [](/\ \A i, j \in 1..Len(steps) :
               i < j => Rank(steps[i]) < Rank(steps[j])
          /\ ReconciliationStarted
             => /\ steps = StepOrder
                /\ w_pc \notin {"wait_git", "wait_git_exit"}
                /\ git_ran /\ git_code = 0
                /\ should_update_remotes(argv) = Ok(TRUE))
    /\ [][w_store' # w_store
          => (git_ran /\ git_code = 0 /\ ReconciliationStarted)]_vars
    /\ [][git_code' \notin {-1, 0} => w_store' = w_store]_vars

C21_Witness ==
    /\ w_pc = "exited" /\ root_set
    /\ argv = <<TokSubmodule, TokUpdate>>
    /\ steps = StepOrder
    /\ git_ran /\ git_code = 0 /\ exit_code = 0
    /\ recon = "written"
    /\ w_store \notin {EmptyStore, StoreWith(RegisteredBefore)}

---------------------------------------------------------------------------
(* Claims about the alternates file (checked under SpecAlt).               *)

\* The lines of a text that name the reference object directory.
ObjectsLines(text) ==
    {i \in 1..Len(readlines(text)) :
        Path(strip(readlines(text)[i])) = Path(ObjectsPath)}

\* C14: after one or more fetch invocations, whatever the file held
\* before (the reference object directory at most once), the file lists
\* the reference object directory as a line of its own exactly once and
\* every line it held before is still there, unchanged.
C14_ListedOnceLinesKept ==
    (fetches >= 1 /\ Cardinality(ObjectsLines(alt_prior.text)) <= 1)
    => /\ alt_now.exists
       /\ Cardinality(ObjectsLines(alt_now.text)) = 1
       /\ Len(readlines(alt_prior.text)) <= Len(readlines(alt_now.text))
       /\ \A i \in 1..Len(readlines(alt_prior.text)) :
             readlines(alt_now.text)[i] = readlines(alt_prior.text)[i]

\* What does hold of the code for C14: the same, for a file that was
\* empty, absent, or ended with a newline.
C14_ListedOnceIfNewlineEnded ==
    (/\ fetches >= 1 /\ Cardinality(ObjectsLines(alt_prior.text)) <= 1
     /\ (alt_prior.text = <<>>
         \/ alt_prior.text[Len(alt_prior.text)] = "\n"))
    => /\ alt_now.exists
       /\ Cardinality(ObjectsLines(alt_now.text)) = 1
       /\ Len(readlines(alt_prior.text)) <= Len(readlines(alt_now.text))
       /\ \A i \in 1..Len(readlines(alt_prior.text)) :
             readlines(alt_now.text)[i] = readlines(alt_prior.text)[i]

---------------------------------------------------------------------------
(* Claims about a maintenance run (checked under SpecMaint).               *)

\* C4 as stated: when a maintenance run completes without error, the
\* reference repository's remote names are exactly the entry names that
\* are in the Config Store at that moment.
C4_RemotesEqualStoreAtCompletion ==
    [][(m_pc # "done" /\ m_pc' = "done") => repo_remotes' = conf_names']_vars

\* C4 as amended: after a maintenance run that completed without error,
\* the reference repository's remote names are exactly the entry names
\* the run listed from the Config Store (get_remotes), all of them still
\* in the store; an entry registered after the listing is not among them.
C4_RemotesEqualListedNames ==
    m_pc = "done" => (repo_remotes = requested /\ requested \subseteq conf_names)

C4_Witness ==
    /\ m_pc = "done"
    /\ NameOld \in existing /\ NameOld \notin repo_remotes
    /\ \E n \in requested : n \notin existing /\ n \in repo_remotes
    /\ repo_remotes # conf_names

\* C13 as stated: when a maintenance run has completed and the Config
\* Store is as it was when that run ended, the run that follows performs
\* no "remote add" and no "remote remove".
C13_NoOpsIfStoreAsAtCompletion ==
    (run >= 2 /\ m_pc # "done" /\ conf_names = prev.at_done) => ops = 0

\* C13 as amended: when a maintenance run has completed and the Config
\* Store is as it was when that run listed it (get_remotes), the run that
\* follows performs no "remote add" and no "remote remove".
C13_NoOpsIfStoreAsListed ==
    (run >= 2 /\ m_pc # "done" /\ conf_names = prev.listed) => ops = 0

C13_Witness ==
    /\ run = 2 /\ m_pc = "remove"
    /\ prev.listed # {} /\ conf_names = prev.listed
    /\ requested = prev.listed /\ existing = prev.listed
    /\ ops = 0

\* C17: no remote listing, add, remove or fetch is attempted unless a
\* repository is at the configured path: a run that starts with nothing
\* there, with a regular file or with a directory that is no repository
\* has created a bare repository before it goes on.
C17_RepositoryBeforeListing ==
    m_pc \in {"list_existing", "get_remotes", "add", "remove"}
    => repo_path = "repo"

\* What does hold of the code for C17: a run goes on to the listing with
\* a repository at the path, or with the directory it found there.
C17_RepositoryOrFoundDirectory ==
    m_pc \in {"list_existing", "get_remotes", "add", "remove"}
    => repo_path \in {"repo", "dir"}

=============================================================================
